---- MODULE Spec2Model ----
(***************************************************************************)
(* Model of application/flicket/models/flicket_user.py: the FlicketUser    *)
(* bearer-token life cycle (get_token, revoke_token, check_token), the     *)
(* password check, the derived admin flag, and the pagination mixin.       *)
(*                                                                         *)
(* Conventions.                                                            *)
(*  - A Python value that may be None is an option: None is <<>> and a     *)
(*    present value v is <<v>>.                                            *)
(*  - Times are whole seconds (datetime.utcnow()); timedelta(seconds = n)  *)
(*    is the integer n.                                                    *)
(*  - A minted token, base64(os.urandom(24)), is a 32 character string     *)
(*    that no earlier call produced; it is modelled by the next unused     *)
(*    positive number.                                                     *)
(*  - One ORM session with autoflush: a query sees the attributes of every *)
(*    object that was added to the session. rows is the set of such users. *)
(***************************************************************************)
EXTENDS Integers, Sequences, FiniteSets

VARIABLES
    now,               \* datetime.utcnow(), in seconds
    token,             \* FlicketUser.token of each user object
    token_expiration,  \* FlicketUser.token_expiration of each user object
    rows,              \* the users that have a row in flicket_users
    issued,            \* history: issued[k] is the user token k was minted for
    revoked,           \* history: users revoked since their last get_token
    lastOp,            \* the last call: its arguments, its result, and the
                       \* fields of its user just before it
    username,          \* FlicketUser.username of each user object
    password,          \* FlicketUser.password of each user object (a bcrypt hash)
    plain,             \* history: the password each stored hash was made from
    flicket_groups,    \* the flicket_groups table: <<user id, group id>> edges
    request,           \* the arguments of a to_collection_dict call
    data               \* what to_collection_dict returned for them

tokenVars == <<now, token, token_expiration, issued, revoked>>
accountVars == <<username, password, plain>>
pageVars == <<request, data>>
vars == <<now, token, token_expiration, rows, issued, revoked, lastOp,
          username, password, plain, flicket_groups, request, data>>

\* ------------------------------------------------------------------ bounds

MaxUsers == 2
MaxTokens == 3
MaxTime == 61
MaxGroups == 3
MaxItems == 25
MaxPerPage == 10
MaxPage == 4

\* ------------------------------------------------------- program constants

TokenMargin == 60
RevokeBackdate == 1
\* bcrypt reads at most this many bytes of the password it is given.
BcryptKeyBytes == 72

\* ------------------------------------------------------------------ values

None == <<>>
Some(v) == <<v>>

Users == 1..MaxUsers
Deltas == {60, 61}
ExpiresIn == {60, 121}
TokenArgs == {None} \cup {Some(k) : k \in 1..(MaxTokens + 1)}

\* A call record: op(arg) on user returned ret (with value val); ptoken,
\* pexp and prevoked are the user's fields before the call.
Call(op, u, arg, ret, val) ==
    [op |-> op, user |-> u, arg |-> arg, ret |-> ret, val |-> val,
     ptoken |-> IF u \in Users THEN token[u] ELSE None,
     pexp |-> IF u \in Users THEN token_expiration[u] ELSE None,
     prevoked |-> u \in revoked]

NoOp == [op |-> "init", user |-> 0, arg |-> None, ret |-> "None", val |-> 0,
         ptoken |-> None, pexp |-> None, prevoked |-> FALSE]

Min(a, b) == IF a <= b THEN a ELSE b

\* --------------------------------------------------------------- get_token

\* os.urandom: the next value no earlier call returned.
FreshToken == Len(issued) + 1

\* get_token with the margin test written >= : a token with exactly 60 seconds
\* left is handed out again.
get_token_margin_inclusive(tok, exp, t, expires_in, fresh) ==
    IF tok # None /\ exp # None /\ exp[1] >= t + TokenMargin
    THEN [ret |-> "token", val |-> tok[1], token |-> tok,
          token_expiration |-> exp, minted |-> FALSE]
    ELSE [ret |-> "token", val |-> fresh, token |-> Some(fresh),
          token_expiration |-> Some(t + expires_in), minted |-> TRUE]

\* get_token that renews the expiration of an existing token instead of
\* minting a new one.
get_token_renews(tok, exp, t, expires_in, fresh) ==
    IF tok # None /\ exp # None /\ exp[1] > t + TokenMargin
    THEN [ret |-> "token", val |-> tok[1], token |-> tok,
          token_expiration |-> exp, minted |-> FALSE]
    ELSE IF tok # None
    THEN [ret |-> "token", val |-> tok[1], token |-> tok,
          token_expiration |-> Some(t + expires_in), minted |-> FALSE]
    ELSE [ret |-> "token", val |-> fresh, token |-> Some(fresh),
          token_expiration |-> Some(t + expires_in), minted |-> TRUE]

\* get_token that stores the new token and forgets its expiration.
get_token_no_expiration(tok, exp, t, expires_in, fresh) ==
    IF tok # None /\ exp # None /\ exp[1] > t + TokenMargin
    THEN [ret |-> "token", val |-> tok[1], token |-> tok,
          token_expiration |-> exp, minted |-> FALSE]
    ELSE [ret |-> "token", val |-> fresh, token |-> Some(fresh),
          token_expiration |-> exp, minted |-> TRUE]

\* The outcome of self.get_token(expires_in) at time t for an object whose
\* fields are tok and exp: the returned value and the object's fields after.
get_token(tok, exp, t, expires_in, fresh) ==
    IF tok # None /\ exp = None
    THEN [ret |-> "TypeError", val |-> 0, token |-> tok,
          token_expiration |-> exp, minted |-> FALSE]
    ELSE IF tok # None /\ exp[1] > t + TokenMargin
    THEN [ret |-> "token", val |-> tok[1], token |-> tok,
          token_expiration |-> exp, minted |-> FALSE]
    ELSE [ret |-> "token", val |-> fresh, token |-> Some(fresh),
          token_expiration |-> Some(t + expires_in), minted |-> TRUE]

GetToken(u, e) ==
    LET r == get_token(token[u], token_expiration[u], now, e, FreshToken) IN
    /\ r.minted => Len(issued) < MaxTokens
    /\ token' = [token EXCEPT ![u] = r.token]
    /\ token_expiration' = [token_expiration EXCEPT ![u] = r.token_expiration]
    /\ issued' = IF r.minted THEN Append(issued, u) ELSE issued
    /\ rows' = IF r.minted THEN rows \cup {u} ELSE rows
    /\ revoked' = revoked \ {u}
    /\ lastOp' = Call("get_token", u, Some(e), r.ret, r.val)
    /\ UNCHANGED <<now, accountVars, flicket_groups, pageVars>>

\* ------------------------------------------------------------ revoke_token

\* revoke_token that sets the expiration to the current instant.
revoke_token_to_now(t) == Some(t)

revoke_token(t) == Some(t - RevokeBackdate)

RevokeToken(u) ==
    /\ token_expiration' = [token_expiration EXCEPT ![u] = revoke_token(now)]
    /\ revoked' = revoked \cup {u}
    /\ lastOp' = Call("revoke_token", u, None, "None", 0)
    /\ UNCHANGED <<now, token, rows, issued>>
    /\ UNCHANGED <<accountVars, flicket_groups, pageVars>>

\* ------------------------------------------------------------- check_token

\* A lookup that matches every token ever minted for a user, not only the
\* stored one.
filter_by_any_issued(tk) ==
    {u \in rows : tk # None /\ tk[1] \in DOMAIN issued /\ issued[tk[1]] = u}

\* query.filter_by(token = tk): the stored rows whose token equals tk
\* (token IS NULL for tk = None).
filter_by_token(tk) == {u \in rows : token[u] = tk}

\* query.first(): the row with the least id, if any.
first(S) == IF S = {} THEN None ELSE Some(CHOOSE u \in S : \A v \in S : u <= v)

check_token(tk, t) ==
    LET user == first(filter_by_token(tk)) IN
    IF user = None THEN [ret |-> "None", val |-> 0]
    ELSE IF token_expiration[user[1]] = None THEN [ret |-> "TypeError", val |-> 0]
    ELSE IF token_expiration[user[1]][1] < t THEN [ret |-> "None", val |-> 0]
    ELSE [ret |-> "user", val |-> user[1]]

CheckToken(tk) ==
    LET r == check_token(tk, now) IN
    /\ lastOp' = Call("check_token", 0, tk, r.ret, r.val)
    /\ UNCHANGED <<tokenVars, rows, accountVars, flicket_groups, pageVars>>

\* ---------------------------------------------------------- check_password

\* Strings are sequences of code points: "a" is 97, "x" is 120 and the two
\* byte character e-acute is 233.
Str(c, n) == [i \in 1..n |-> c]
ShortPassword == <<112, 119>>
Passwords == {ShortPassword, Str(97, BcryptKeyBytes), Str(233, BcryptKeyBytes \div 2)}
PasswordArgs == Passwords \cup {p \o <<120>> : p \in Passwords}
UserNames == <<"alice", "bob", "carol", "dave">>
LoginNames == {"alice", "bob"}
Salts == {1, 2}

\* str.encode('utf-8') of one code point below U+0800.
utf8(c) == IF c < 128 THEN <<c>> ELSE <<192 + (c \div 64), 128 + (c % 64)>>

\* password.encode('utf-8')
RECURSIVE encode(_)
encode(str) == IF str = <<>> THEN <<>> ELSE utf8(Head(str)) \o encode(Tail(str))

\* bcrypt.gensalt(): a salt with no digest after it.
gensalt(s) == [salt |-> s, digest |-> <<>>]

\* bcrypt.hashpw(bytes, salt): the salt is the leading part of its second
\* argument (a salt or a whole stored hash); the digest is a one-to-one image
\* of the salt and of the first BcryptKeyBytes bytes of the password, which
\* are all that bcrypt reads. The image is modelled by those bytes themselves.
hashpw(bytes, salt) ==
    [salt |-> salt.salt,
     digest |-> SubSeq(bytes, 1, Min(Len(bytes), BcryptKeyBytes))]

\* FlicketUser.query.filter_by(username = name)
filter_by_username(name) == {r \in rows : username[r] = name}

check_password(u, pw) ==
    LET result == filter_by_username(username[u]) IN
    IF Cardinality(result) = 0 THEN "False"
    ELSE LET row == first(result)[1] IN
         IF hashpw(encode(pw), password[row]) # password[row] THEN "False"
         ELSE "True"

CheckPassword(u, pw) ==
    /\ lastOp' = Call("check_password", u, pw, check_password(u, pw), 0)
    /\ UNCHANGED <<tokenVars, rows, accountVars, flicket_groups, pageVars>>

\* ---------------------------------------------------------------- is_admin

Groups == 1..MaxGroups
GroupNames == <<"flicket_admin", "all", "users", "staff">>
ADMIN_GROUP_NAME == "flicket_admin"

\* FlicketGroup.group_name
group_name(g) == GroupNames[g]

\* The position of a group name in ascending order (order_by=group_name).
NameRank(name) ==
    CASE name = "all" -> 1
      [] name = "flicket_admin" -> 2
      [] name = "staff" -> 3
      [] name = "users" -> 4

\* user.flicket_groups: the groups joined to the user through the
\* flicket_groups table, ordered by group name.
RECURSIVE OrderByName(_)
OrderByName(S) ==
    IF S = {} THEN <<>>
    ELSE LET g == CHOOSE x \in S :
                     \A y \in S : NameRank(group_name(x)) <= NameRank(group_name(y))
         IN  <<g>> \o OrderByName(S \ {g})

user_flicket_groups(u) == OrderByName({g \in Groups : <<u, g>> \in flicket_groups})

\* FlicketUser.query.filter_by(id = self.id): an object with no row has id
\* None and matches nothing.
filter_by_id(u) == {r \in rows : r = u}

\* A loop that answers True for a member of any group.
admin_loop_any_group(gs) ==
    IF gs = <<>> THEN "None" ELSE "True"

\* for g in user.flicket_groups: if g.group_name == ADMIN_GROUP_NAME: return True
RECURSIVE admin_loop(_)
admin_loop(gs) ==
    IF gs = <<>> THEN "None"
    ELSE IF group_name(Head(gs)) = ADMIN_GROUP_NAME THEN "True"
    ELSE admin_loop(Tail(gs))

is_admin(u) ==
    LET user == first(filter_by_id(u)) IN
    IF user = None THEN "AttributeError"
    ELSE admin_loop(user_flicket_groups(user[1]))

IsAdmin(u) ==
    /\ lastOp' = Call("is_admin", u, None, is_admin(u), 0)
    /\ UNCHANGED <<tokenVars, rows, accountVars, flicket_groups, pageVars>>

\* A membership edge is added to or removed from a stored user (by the
\* callers that edit the relationship collection).
AddMember(u, g) ==
    /\ u \in rows
    /\ <<u, g>> \notin flicket_groups
    /\ flicket_groups' = flicket_groups \cup {<<u, g>>}
    /\ lastOp' = Call("add_member", 0, None, "None", 0)
    /\ UNCHANGED <<tokenVars, rows, accountVars, pageVars>>

RemoveMember(u, g) ==
    /\ <<u, g>> \in flicket_groups
    /\ flicket_groups' = flicket_groups \ {<<u, g>>}
    /\ lastOp' = Call("remove_member", 0, None, "None", 0)
    /\ UNCHANGED <<tokenVars, rows, accountVars, pageVars>>

\* ------------------------------------------------------ to_collection_dict

\* The query: n users in id order; every second one has no job title.
Query(n) == [i \in 1..n |-> [id |-> i, job_title |-> IF i % 2 = 0 THEN None ELSE Some("engineer")]]

\* flask.url_for(endpoint, page=, per_page=): the URL is its arguments.
url_for(endpoint, page, per_page) ==
    [endpoint |-> endpoint, page |-> page, per_page |-> per_page]

\* FlicketUser.to_dict, the fields the model carries.
to_dict(item) ==
    [id |-> item.id,
     job_title |-> IF item.job_title # None THEN item.job_title[1] ELSE "unknown",
     links |-> [self |-> [endpoint |-> "bp_api_v2.get_user", id |-> item.id]]]

\* query.paginate(page, per_page, False): limit and offset, then the
\* Pagination object's total, pages, has_next and has_prev.
paginate(query, page, per_page) ==
    LET items == SubSeq(query, (page - 1) * per_page + 1,
                        Min(page * per_page, Len(query)))
        total == IF page = 1 /\ Len(items) < per_page
                 THEN Len(items) ELSE Len(query)
        pages == IF per_page = 0 THEN 0
                 ELSE (total + per_page - 1) \div per_page
    IN  [items |-> items, total |-> total, pages |-> pages,
         has_prev |-> page > 1, has_next |-> page < pages]

\* to_collection_dict with the next and prev conditions exchanged.
to_collection_dict_links_swapped(query, page, per_page, endpoint) ==
    LET resources == paginate(query, page, per_page) IN
    [items |-> [i \in DOMAIN resources.items |-> to_dict(resources.items[i])],
     meta |-> [page |-> page, per_page |-> per_page,
               total_pages |-> resources.pages, total_items |-> resources.total],
     links |-> [self |-> url_for(endpoint, page, per_page),
                next |-> IF resources.has_prev
                         THEN Some(url_for(endpoint, page + 1, per_page)) ELSE None,
                prev |-> IF resources.has_next
                         THEN Some(url_for(endpoint, page - 1, per_page)) ELSE None]]

to_collection_dict(query, page, per_page, endpoint) ==
    LET resources == paginate(query, page, per_page) IN
    [items |-> [i \in DOMAIN resources.items |-> to_dict(resources.items[i])],
     meta |-> [page |-> page, per_page |-> per_page,
               total_pages |-> resources.pages, total_items |-> resources.total],
     links |-> [self |-> url_for(endpoint, page, per_page),
                next |-> IF resources.has_next
                         THEN Some(url_for(endpoint, page + 1, per_page)) ELSE None,
                prev |-> IF resources.has_prev
                         THEN Some(url_for(endpoint, page - 1, per_page)) ELSE None]]

ToCollectionDict ==
    /\ data = None
    /\ data' = Some(to_collection_dict(Query(request.n), request.page,
                                       request.per_page, "bp_api_v2.get_users"))
    /\ lastOp' = Call("to_collection_dict", 0, None, "dict", 0)
    /\ UNCHANGED <<tokenVars, rows, accountVars, flicket_groups, request>>

\* ------------------------------------------------------------- environment

\* The caller hands a constructed user to the session (db.session.add); the
\* unique index on username (unique=True) refuses a second row with a name.
Persist(u) ==
    /\ u \notin rows
    /\ \A r \in rows : username[r] # username[u]
    /\ rows' = rows \cup {u}
    /\ lastOp' = Call("persist", 0, None, "None", 0)
    /\ UNCHANGED <<tokenVars, accountVars, flicket_groups, pageVars>>

\* Time passes between two calls.
Tick(d) ==
    /\ now + d <= MaxTime
    /\ now' = now + d
    /\ lastOp' = Call("tick", 0, None, "None", 0)
    /\ UNCHANGED <<token, token_expiration, rows, issued, revoked>>
    /\ UNCHANGED <<accountVars, flicket_groups, pageVars>>

\* ----------------------------------------------------------- specification

\* FlicketUser.__init__ sets neither token nor token_expiration: both are
\* None; no user has a row yet and no group has a member.
InitObjects ==
    /\ now = 0
    /\ token = [u \in Users |-> None]
    /\ token_expiration = [u \in Users |-> None]
    /\ rows = {}
    /\ issued = <<>>
    /\ revoked = {}
    /\ lastOp = NoOp
    /\ flicket_groups = {}

\* No to_collection_dict call is under way.
InitNoRequest ==
    /\ request = [n |-> 0, page |-> 1, per_page |-> 1]
    /\ data = None

\* Users constructed with distinct usernames and the hash of one password.
InitAccounts ==
    /\ username = [u \in Users |-> UserNames[u]]
    /\ plain = [u \in Users |-> ShortPassword]
    /\ password = [u \in Users |-> hashpw(encode(ShortPassword), gensalt(1))]

Init == InitObjects /\ InitAccounts /\ InitNoRequest

Next ==
    \/ \E u \in Users, e \in ExpiresIn : GetToken(u, e)
    \/ \E u \in Users : RevokeToken(u)
    \/ \E tk \in TokenArgs : CheckToken(tk)
    \/ \E u \in Users : Persist(u)
    \/ \E d \in Deltas : Tick(d)

Spec == Init /\ [][Next]_vars

\* Accounts, group membership and the three lookups.
NextLookup ==
    \/ \E u \in Users : Persist(u)
    \/ \E u \in Users, g \in Groups : AddMember(u, g)
    \/ \E u \in Users, g \in Groups : RemoveMember(u, g)
    \/ \E u \in Users : IsAdmin(u)
    \/ \E u \in Users, pw \in {ShortPassword, ShortPassword \o <<120>>} :
           CheckPassword(u, pw)
    \/ \E tk \in TokenArgs : CheckToken(tk)

SpecLookup == Init /\ [][NextLookup]_vars

\* Users constructed with any login name and the hash of any password.
InitPassword ==
    /\ InitObjects
    /\ InitNoRequest
    /\ username \in [Users -> LoginNames]
    /\ plain \in [Users -> Passwords]
    /\ \E salt \in [Users -> Salts] :
           password = [u \in Users |-> hashpw(encode(plain[u]), gensalt(salt[u]))]

NextPassword ==
    \/ \E u \in Users : Persist(u)
    \/ \E u \in Users, pw \in PasswordArgs : CheckPassword(u, pw)

SpecPassword == InitPassword /\ [][NextPassword]_vars

\* One to_collection_dict call on a query of n items.
InitPage ==
    /\ InitObjects
    /\ InitAccounts
    /\ request \in [n : 0..MaxItems, page : 1..MaxPage, per_page : 1..MaxPerPage]
    /\ data = None

NextPage == ToCollectionDict

SpecPage == InitPage /\ [][NextPage]_vars

\* ------------------------------------------------------------------ claims

\* C1: check_token(t) returns the user whose stored token equals t whenever
\* now < that user's token_expiration, and returns None whenever
\* now >= token_expiration (the instant now = token_expiration included) or
\* when t was never issued to any user.
C1_CheckTokenContract ==
    (lastOp.op = "check_token" /\ lastOp.arg # None) =>
        /\ \A u \in Users :
             (token[u] = lastOp.arg /\ token_expiration[u] # None) =>
                 IF now < token_expiration[u][1]
                 THEN lastOp.ret = "user" /\ lastOp.val = u
                 ELSE lastOp.ret = "None"
        /\ lastOp.arg[1] \notin DOMAIN issued => lastOp.ret = "None"

\* C2: get_token on a user whose token is present and whose expiration is
\* more than 60 seconds after now returns the stored token and leaves token
\* and token_expiration unchanged, whatever expires_in is; in every other
\* case it stores a newly minted token with expiration now + expires_in and
\* returns it.
C2_GetOrRefresh ==
    lastOp.op = "get_token" =>
        LET u == lastOp.user
            pt == lastOp.ptoken
            pe == lastOp.pexp
        IN  IF pt # None /\ pe # None /\ pe[1] - now > 60
            THEN /\ lastOp.ret = "token"
                 /\ lastOp.val = pt[1]
                 /\ token[u] = pt
                 /\ token_expiration[u] = pe
            ELSE /\ lastOp.ret = "token"
                 /\ lastOp.val = Len(issued)
                 /\ issued[lastOp.val] = u
                 /\ Some(lastOp.val) # pt
                 /\ token[u] = Some(lastOp.val)
                 /\ token_expiration[u] = Some(now + lastOp.arg[1])

\* A repeated get_token, later than the mint and with another expires_in,
\* handed the stored token out again.
C2_Witness ==
    /\ lastOp.op = "get_token"
    /\ lastOp.ptoken # None
    /\ lastOp.pexp[1] - now > 60
    /\ now > 0
    /\ lastOp.val = lastOp.ptoken[1]
    /\ token_expiration[lastOp.user] # Some(now + lastOp.arg[1])

\* C3: right after revoke_token on a user holding token t the stored token
\* is still t, token_expiration is one second before now and check_token(t)
\* is None; check_token(t) stays None at every later time until a get_token
\* call on that user.
C3_RevokedTokenRejected ==
    /\ lastOp.op = "revoke_token" =>
          /\ token[lastOp.user] = lastOp.ptoken
          /\ token_expiration[lastOp.user] = Some(now - 1)
          /\ lastOp.ptoken # None =>
                check_token(lastOp.ptoken, now).ret = "None"
    /\ \A u \in revoked :
          token[u] # None =>
              /\ check_token(token[u], now).ret = "None"
              /\ (lastOp.op = "check_token" /\ lastOp.arg = token[u]) =>
                     lastOp.ret = "None"

\* A revoked user still holds its token, time has passed since the revoke,
\* and a check_token call on that token was answered.
C3_Witness ==
    \E u \in revoked :
        /\ token[u] # None
        /\ now > token_expiration[u][1] + 1
        /\ lastOp.op = "check_token"
        /\ lastOp.arg = token[u]

\* C4: for a user holding token t, a get_token call made after t's
\* expiration has passed, or after revoke_token, returns a token different
\* from t and stores it with expiration now + expires_in; a get_token call
\* made while more than 60 seconds of validity remain returns t itself.
C4_RefreshAfterExpiryOrRevoke ==
    (lastOp.op = "get_token" /\ lastOp.ptoken # None /\ lastOp.pexp # None) =>
        LET u == lastOp.user
            t == lastOp.ptoken[1]
        IN  /\ (lastOp.pexp[1] < now \/ lastOp.prevoked) =>
                  /\ lastOp.ret = "token"
                  /\ lastOp.val # t
                  /\ token[u] = Some(lastOp.val)
                  /\ token_expiration[u] = Some(now + lastOp.arg[1])
            /\ lastOp.pexp[1] - now > 60 =>
                  lastOp.ret = "token" /\ lastOp.val = t

\* get_token was called on a user that held a token and had been revoked.
C4_Witness ==
    /\ lastOp.op = "get_token"
    /\ lastOp.ptoken # None
    /\ lastOp.prevoked
    /\ lastOp.ret = "token"

\* C5: in every reachable state a user whose token is present has a
\* token_expiration; so neither get_token nor check_token of a token value
\* ever compares a missing expiration with the current time.
C5_TokenHasExpiration ==
    /\ \A u \in Users : token[u] # None => token_expiration[u] # None
    /\ lastOp.op = "get_token" => lastOp.ret # "TypeError"
    /\ (lastOp.op = "check_token" /\ lastOp.arg # None) =>
           lastOp.ret # "TypeError"

\* One user holds a token that was revoked, another has an expiration and
\* no token (revoke_token on a user that never asked for one).
C5_Witness ==
    \E u, v \in Users :
        /\ token[u] # None
        /\ u \in revoked
        /\ token[v] = None
        /\ token_expiration[v] # None

\* C6: a lookup that finds zero rows gives an absent or false result and
\* never an exception: check_password on a user whose username matches no
\* row is False, check_token on a token matching no row is None, and is_admin
\* on a user whose id matches no row is false or None.
C6_ZeroRowLookupsNeverRaise ==
    /\ (/\ lastOp.op = "check_password"
        /\ \A r \in rows : username[r] # username[lastOp.user]) =>
           lastOp.ret = "False"
    /\ (/\ lastOp.op = "check_token"
        /\ \A r \in rows : token[r] # lastOp.arg) =>
           lastOp.ret = "None"
    /\ (lastOp.op = "is_admin" /\ lastOp.user \notin rows) =>
           lastOp.ret \in {"None", "False"}

\* C7: is_admin is truthy exactly when the groups stored for the user's id
\* contain a group named as the configured admin group; for a stored user
\* with no, one or several groups none of which is the admin group it is
\* None; the answer follows the membership edges as they are added and
\* removed.
C7_AdminIffAdminGroup ==
    LET HasAdminGroup(u) ==
            \E g \in Groups :
                <<u, g>> \in flicket_groups /\ GroupNames[g] = "flicket_admin"
    IN  /\ lastOp.op = "is_admin" =>
              /\ lastOp.ret = "True" <=> HasAdminGroup(lastOp.user)
              /\ (lastOp.user \in rows /\ ~HasAdminGroup(lastOp.user)) =>
                     lastOp.ret = "None"
        /\ \A u \in rows :
              is_admin(u) = IF HasAdminGroup(u) THEN "True" ELSE "None"

\* is_admin answered None for a stored user in two groups, neither the admin
\* group, after that user's admin membership was removed or never existed,
\* while another stored user is in the admin group and one more.
C7_Witness ==
    /\ lastOp.op = "is_admin"
    /\ lastOp.ret = "None"
    /\ Cardinality({g \in Groups : <<lastOp.user, g>> \in flicket_groups}) = 2
    /\ \E v \in rows \ {lastOp.user} :
          /\ Cardinality({g \in Groups : <<v, g>> \in flicket_groups}) = 2
          /\ is_admin(v) = "True"

\* C8: check_password(p) is True exactly when a row with the user's username
\* exists and hashing p with that row's hash as salt reproduces the hash;
\* for a user stored with the hash of password P, check_password(P) is True
\* and check_password(P + "x") is False.
C8_PasswordMatchesExactly ==
    lastOp.op = "check_password" =>
        LET u == lastOp.user
            p == lastOp.arg
        IN  /\ lastOp.ret = "True" <=>
                  \E r \in rows :
                      /\ username[r] = username[u]
                      /\ hashpw(encode(p), password[r]) = password[r]
            /\ lastOp.ret \in {"True", "False"}
            /\ (u \in rows /\ p = plain[u]) => lastOp.ret = "True"
            /\ (u \in rows /\ p = plain[u] \o <<120>>) => lastOp.ret = "False"

\* C9: to_collection_dict over N items reports total_items = N, total_pages =
\* ceil(N / per_page) and the page and per_page it was given; items are the
\* to_dict images of that page's items in query order (none past the last
\* page); next is the URL of page + 1 exactly when page < total_pages and
\* prev the URL of page - 1 exactly when page > 1, None otherwise.
C9_CollectionDict ==
    data # None =>
        LET d == data[1]
            n == request.n
            page == request.page
            per_page == request.per_page
            total_pages == CHOOSE k \in 0..n :
                               k * per_page >= n /\ (k > 0 => (k - 1) * per_page < n)
            lo == (page - 1) * per_page
            count == IF n - lo < 0 THEN 0 ELSE Min(per_page, n - lo)
        IN  /\ d.meta = [page |-> page, per_page |-> per_page,
                         total_pages |-> total_pages, total_items |-> n]
            /\ Len(d.items) = count
            /\ \A i \in 1..count :
                   /\ d.items[i].id = lo + i
                   /\ d.items[i].job_title =
                          IF (lo + i) % 2 = 0 THEN "unknown" ELSE "engineer"
            /\ d.links.next =
                   IF page < total_pages
                   THEN Some([endpoint |-> "bp_api_v2.get_users",
                              page |-> page + 1, per_page |-> per_page])
                   ELSE None
            /\ d.links.prev =
                   IF page > 1
                   THEN Some([endpoint |-> "bp_api_v2.get_users",
                              page |-> page - 1, per_page |-> per_page])
                   ELSE None
            /\ (n = 25 /\ per_page = 10) =>
                   /\ d.meta.total_pages = 3
                   /\ page = 1 => (d.links.next # None /\ d.links.prev = None)
                   /\ page = 3 => (d.links.prev # None /\ d.links.next = None)

\* The call for page 3 of 25 items, 10 to a page, has returned: the last,
\* partly filled page.
C9_Witness ==
    /\ data # None
    /\ request = [n |-> 25, page |-> 3, per_page |-> 10]
    /\ Len(data[1].items) = 5

\* C10: at any moment check_token accepts at most one token value per user,
\* that value is the user's stored token and it resolves to the user it was
\* minted for; a token that a newer mint replaced is rejected from then on,
\* even before the expiration it was minted with.
C10_OneLiveTokenPerUser ==
    LET Accepted(u) ==
            {k \in DOMAIN issued :
                check_token(Some(k), now) = [ret |-> "user", val |-> u]}
    IN  /\ \A u \in Users :
              /\ Cardinality(Accepted(u)) <= 1
              /\ \A k \in Accepted(u) :
                     token[u] = Some(k) /\ issued[k] = u
        /\ \A k \in DOMAIN issued :
              token[issued[k]] # Some(k) =>
                  check_token(Some(k), now).ret = "None"
        /\ (/\ lastOp.op = "check_token"
            /\ lastOp.arg # None
            /\ lastOp.arg[1] \in DOMAIN issued
            /\ token[issued[lastOp.arg[1]]] # lastOp.arg) =>
               lastOp.ret = "None"

\* check_token was called with a replaced token before the expiration it
\* was minted with (no token lives less than the shortest expires_in), while
\* its user's newer token and another user's token are both accepted.
C10_Witness ==
    /\ lastOp.op = "check_token"
    /\ lastOp.arg # None
    /\ lastOp.arg[1] \in DOMAIN issued
    /\ LET k == lastOp.arg[1]
           u == issued[k]
       IN  /\ token[u] # Some(k)
           /\ \A e \in ExpiresIn : now < e
           /\ check_token(token[u], now).ret = "user"
           /\ \E v \in Users \ {u} :
                  token[v] # None /\ check_token(token[v], now).ret = "user"

====
